---- MODULE Spec2Model ----
(***************************************************************************)
(* Model of the scan server actions of ui/actions/scans/scans.ts:          *)
(* getScans, getScansByState, getScan, scanOnDemand, scheduleDaily,        *)
(* updateScan, getExportsZip and getComplianceCsv.                         *)
(*                                                                         *)
(* Every server action is an async function.  Its only suspension point    *)
(* that another invocation can interleave with is the awaited fetch, so    *)
(* each action is modelled by two steps: the synchronous prefix up to the  *)
(* fetch call (or up to an early return / redirect), and the continuation  *)
(* that runs once the fetch promise has settled.                           *)
(***************************************************************************)
EXTENDS Integers, Sequences, FiniteSets, TLC

(***************************************************************************)
(* Bounds of the model.                                                    *)
(***************************************************************************)
MaxPage == 2

(***************************************************************************)
(* JavaScript values.  Every value is a record [t, v]: t is the type tag,  *)
(* v the payload (a TLA+ string, integer, boolean, record or sequence).    *)
(***************************************************************************)
Undefined == [t |-> "undefined", v |-> ""]
Null == [t |-> "null", v |-> ""]
NaN == [t |-> "NaN", v |-> ""]
Str(s) == [t |-> "string", v |-> s]
Num(n) == [t |-> "number", v |-> n]
Bool(b) == [t |-> "boolean", v |-> b]
Obj(r) == [t |-> "object", v |-> r]
Arr(s) == [t |-> "array", v |-> s]

\* An Error instance: its constructor name and its message.
Error(name, message) == [name |-> name, message |-> message]

\* The outcome of an expression that may throw.
Value(val) == [ok |-> TRUE, val |-> val, error |-> Error("", "")]
Throw(err) == [ok |-> FALSE, val |-> Undefined, error |-> err]

\* ToBoolean: the truthiness test of `if (x)`, `!x` and `x || y`.
Truthy(x) ==
  CASE x.t = "undefined" -> FALSE
    [] x.t = "null" -> FALSE
    [] x.t = "NaN" -> FALSE
    [] x.t = "string" -> x.v # ""
    [] x.t = "number" -> x.v # 0
    [] x.t = "boolean" -> x.v
    [] OTHER -> TRUE

\* x || y
OrElse(x, y) == IF Truthy(x) THEN x ELSE y

\* Whether a value is null or undefined.
Nullish(x) == x.t \in {"undefined", "null"}

\* x.k for a value x that is not null or undefined: an own property of an
\* object, the element of an array for a numeric key, undefined otherwise.
Prop(x, k) ==
  IF x.t = "object"
  THEN IF k \in DOMAIN x.v THEN x.v[k] ELSE Undefined
  ELSE Undefined

\* x[i] for an array index i (0-based) of a value that is not nullish.
Elem(x, i) ==
  IF x.t = "array"
  THEN IF i + 1 \in DOMAIN x.v THEN x.v[i + 1] ELSE Undefined
  ELSE Undefined

\* x?.k
OptProp(x, k) == IF Nullish(x) THEN Undefined ELSE Prop(x, k)

\* The TypeError of a property read on null or undefined.
ReadError(x, k) ==
  Error("TypeError",
        "Cannot read properties of " \o x.t \o " (reading '" \o k \o "')")

\* x.k as an expression that throws on null or undefined.
GetProp(x, k) == IF Nullish(x) THEN Throw(ReadError(x, k)) ELSE Value(Prop(x, k))

\* x[i] as an expression that throws on null or undefined.
GetElem(x, i) ==
  IF Nullish(x) THEN Throw(ReadError(x, ToString(i))) ELSE Value(Elem(x, i))

\* Number(s) for the strings of the model: whitespace-only text is 0, a
\* decimal literal is its value, anything else is NaN.
StringToNumber(s) ==
  CASE s = "" -> Num(0)
    [] s = "0" -> Num(0)
    [] s = "1" -> Num(1)
    [] s = "2" -> Num(2)
    [] s = "-1" -> Num(-1)
    [] OTHER -> NaN

\* Number(x)
ToNumber(x) ==
  CASE x.t = "number" -> x
    [] x.t = "string" -> StringToNumber(x.v)
    [] x.t = "null" -> Num(0)
    [] x.t = "boolean" -> IF x.v THEN Num(1) ELSE Num(0)
    [] OTHER -> NaN

\* isNaN(x)
IsNaN(x) == ToNumber(x).t = "NaN"

\* x < n for a number n: x is converted to a number, NaN compares false.
LessThan(x, n) == LET m == ToNumber(x) IN m.t = "number" /\ m.v < n

\* x.toString() / String(x) / `${x}`
ToStr(x) ==
  CASE x.t = "string" -> x.v
    [] x.t = "number" -> ToString(x.v)
    [] x.t = "boolean" -> IF x.v THEN "true" ELSE "false"
    [] x.t = "NaN" -> "NaN"
    [] x.t = "null" -> "null"
    [] x.t = "undefined" -> "undefined"
    [] OTHER -> "[object Object]"

(***************************************************************************)
(* Buffer.from(arrayBuffer).toString("base64")                             *)
(***************************************************************************)
Base64Alphabet ==
  << "A","B","C","D","E","F","G","H","I","J","K","L","M","N","O","P",
     "Q","R","S","T","U","V","W","X","Y","Z","a","b","c","d","e","f",
     "g","h","i","j","k","l","m","n","o","p","q","r","s","t","u","v",
     "w","x","y","z","0","1","2","3","4","5","6","7","8","9","+","/" >>

Sextet(n) == Base64Alphabet[n + 1]

\* The base64 text of a byte sequence, character by character, computed
\* without the last, partial group of bytes.
RECURSIVE Base64CharsNoTail(_)
Base64CharsNoTail(bytes) ==
  IF Len(bytes) < 3 THEN << >>
  ELSE << Sextet(bytes[1] \div 4),
          Sextet((bytes[1] % 4) * 16 + bytes[2] \div 16),
          Sextet((bytes[2] % 16) * 4 + bytes[3] \div 64),
          Sextet(bytes[3] % 64) >>
       \o Base64CharsNoTail(SubSeq(bytes, 4, Len(bytes)))

\* The base64 text of a byte sequence, character by character: three bytes
\* give four characters, a last group of one or two bytes is padded with "=".
RECURSIVE Base64Chars(_)
Base64Chars(bytes) ==
  IF Len(bytes) = 0 THEN << >>
  ELSE IF Len(bytes) = 1
  THEN << Sextet(bytes[1] \div 4), Sextet((bytes[1] % 4) * 16), "=", "=" >>
  ELSE IF Len(bytes) = 2
  THEN << Sextet(bytes[1] \div 4),
          Sextet((bytes[1] % 4) * 16 + bytes[2] \div 16),
          Sextet((bytes[2] % 16) * 4), "=" >>
  ELSE << Sextet(bytes[1] \div 4),
          Sextet((bytes[1] % 4) * 16 + bytes[2] \div 16),
          Sextet((bytes[2] % 16) * 4 + bytes[3] \div 64),
          Sextet(bytes[3] % 64) >>
       \o Base64Chars(SubSeq(bytes, 4, Len(bytes)))

\* The string made of a sequence of characters.
RECURSIVE Join(_)
Join(chars) == IF chars = << >> THEN "" ELSE Head(chars) \o Join(Tail(chars))

Base64(bytes) == Join(Base64Chars(bytes))

(***************************************************************************)
(* Helpers imported from "@/lib".                                          *)
(***************************************************************************)
\* getErrorMessage(error): the message of a thrown Error.
getErrorMessage(error) == Str(error.message)

\* parseStringify(value): a deep copy of a JSON value.
parseStringify(value) == value

(***************************************************************************)
(* The transport: what fetch can settle with.  A response body is its raw  *)
(* bytes together with what response.json() makes of them.                 *)
(***************************************************************************)
TaskDocument ==
  Obj([data |-> Obj([id |-> Str("t1"),
                     attributes |-> Obj([state |-> Str("running")])])])
BareDocument == Obj([data |-> Obj([id |-> Str("t1")])])
ErrorsArray == Obj([errors |-> Arr(<< Obj([detail |-> Str("not found")]) >>)])
ErrorsObject == Obj([errors |-> Obj([detail |-> Str("denied")])])
ErrorsEmpty == Obj([errors |-> Arr(<< >>)])

JsonSyntaxError == Error("SyntaxError", "Unexpected end of JSON input")

Bodies ==
  { \* an empty body
    [bytes |-> << >>, json |-> Throw(JsonSyntaxError)],
    \* the start of a zip archive
    [bytes |-> << 80, 75, 3, 4 >>,
     json |-> Throw(Error("SyntaxError", "Unexpected token P in JSON at position 0"))],
    \* {"data":{"id":"t1","attributes":{"state":"running"}}}
    [bytes |-> << 123,34,100,97,116,97,34,58,123,34,105,100,34,58,34,116,49,34,
                  44,34,97,116,116,114,105,98,117,116,101,115,34,58,123,34,115,
                  116,97,116,101,34,58,34,114,117,110,110,105,110,103,34,125,
                  125,125 >>,
     json |-> Value(TaskDocument)],
    \* {"data":{"id":"t1"}}
    [bytes |-> << 123,34,100,97,116,97,34,58,123,34,105,100,34,58,34,116,49,34,
                  125,125 >>,
     json |-> Value(BareDocument)],
    \* {"errors":[{"detail":"not found"}]}
    [bytes |-> << 123,34,101,114,114,111,114,115,34,58,91,123,34,100,101,116,
                  97,105,108,34,58,34,110,111,116,32,102,111,117,110,100,34,
                  125,93,125 >>,
     json |-> Value(ErrorsArray)],
    \* {"errors":{"detail":"denied"}}
    [bytes |-> << 123,34,101,114,114,111,114,115,34,58,123,34,100,101,116,97,
                  105,108,34,58,34,100,101,110,105,101,100,34,125,125 >>,
     json |-> Value(ErrorsObject)],
    \* {"errors":[]}
    [bytes |-> << 123,34,101,114,114,111,114,115,34,58,91,93,125 >>,
     json |-> Value(ErrorsEmpty)] }

Statuses == {200, 201, 202, 404}

StatusText(status) ==
  CASE status = 200 -> "OK"
    [] status = 201 -> "Created"
    [] status = 202 -> "Accepted"
    [] status = 404 -> "Not Found"
    [] OTHER -> ""

Responses ==
  { [status |-> s, statusText |-> StatusText(s), body |-> b] :
      s \in Statuses, b \in Bodies }

NoResponse == [status |-> 0, statusText |-> "", body |-> [bytes |-> << >>, json |-> Throw(Error("", ""))]]

\* What the awaited fetch settles with: a response, or a rejection.
Resolved(r) == [resolved |-> TRUE, response |-> r, error |-> Error("", "")]
Rejected(e) == [resolved |-> FALSE, response |-> NoResponse, error |-> e]
Unsettled == [resolved |-> FALSE, response |-> NoResponse, error |-> Error("", "")]

FetchError == Error("TypeError", "fetch failed")

Settlements == { Resolved(r) : r \in Responses } \cup { Rejected(FetchError) }

\* response.ok
Ok(r) == r.status >= 200 /\ r.status <= 299

\* await response.json()
Json(r) == r.body.json

\* await response.arrayBuffer()
ArrayBuffer(r) == r.body.bytes

(***************************************************************************)
(* Requests handed to fetch, and what a stretch of code results in.        *)
(***************************************************************************)
apiBaseUrl == "https://api.example.com/api/v1"

Request(method, url, searchParams, body) ==
  [method |-> method, url |-> url, searchParams |-> searchParams, body |-> body]

NoRequest == Request("", "", << >>, Undefined)

\* The code runs up to `await fetch(...)` and suspends there.
Await(events, request) ==
  [pc |-> "awaiting", events |-> events \o << "fetch" >>,
   request |-> request, result |-> Undefined]

\* The code runs up to a return statement.
Return(events, val) ==
  [pc |-> "returned", events |-> events \o << "return" >>,
   request |-> NoRequest, result |-> val]

\* redirect(path): throws the redirect signal out of the server action.
Redirect(events) ==
  [pc |-> "redirected", events |-> events \o << "redirect" >>,
   request |-> NoRequest, result |-> Undefined]

\* An error leaves the function uncaught.
Escape(events) ==
  [pc |-> "thrown", events |-> events \o << "throw" >>,
   request |-> NoRequest, result |-> Undefined]

\* The number of occurrences of event e in a sequence of events.
Count(events, e) == Cardinality({ i \in DOMAIN events : events[i] = e })

\* The positions of event e in a sequence of events.
Positions(events, e) == { i \in DOMAIN events : events[i] = e }

\* A default parameter value applies when the argument is undefined.
Default(x, d) == IF x.t = "undefined" THEN d ELSE x

\* url.searchParams.append(key, value) when the condition holds.
AppendIf(cond, params, key, value) ==
  IF cond THEN Append(params, << key, value >>) ELSE params

\* Object.entries(o).forEach(([key, value]) => append(name(key), String(value)))
\* for an object given as the sequence of its entries.
RECURSIVE AppendFields(_, _)
AppendFields(params, entries) ==
  IF entries = << >> THEN params
  ELSE AppendFields(
         Append(params, << "fields[" \o entries[1][1] \o "]", ToStr(entries[1][2]) >>),
         Tail(entries))

RECURSIVE AppendFilters(_, _)
AppendFilters(params, entries) ==
  IF entries = << >> THEN params
  ELSE AppendFilters(
         Append(params, << entries[1][1], ToStr(entries[1][2]) >>),
         Tail(entries))

(***************************************************************************)
(* getScans                                                                *)
(***************************************************************************)
\* The query parameters with the dynamic filters appended before the fields.
getScansSearchParamsFiltersFirst(page, query, sort, filters, pageSize, fields, include) ==
  LET p1 == AppendIf(Truthy(page), << >>, "page[number]", ToStr(page))
      p2 == AppendIf(Truthy(pageSize), p1, "page[size]", ToStr(pageSize))
      p3 == AppendIf(Truthy(query), p2, "filter[search]", ToStr(query))
      p4 == AppendIf(Truthy(sort), p3, "sort", ToStr(sort))
      p5 == AppendIf(Truthy(include), p4, "include", ToStr(include))
      p6 == AppendFilters(p5, filters)
  IN AppendFields(p6, fields)

\* The query parameters of the request URL, lines 28-42.
getScansSearchParams(page, query, sort, filters, pageSize, fields, include) ==
  LET p1 == AppendIf(Truthy(page), << >>, "page[number]", ToStr(page))
      p2 == AppendIf(Truthy(pageSize), p1, "page[size]", ToStr(pageSize))
      p3 == AppendIf(Truthy(query), p2, "filter[search]", ToStr(query))
      p4 == AppendIf(Truthy(sort), p3, "sort", ToStr(sort))
      p5 == AppendIf(Truthy(include), p4, "include", ToStr(include))
      p6 == AppendFields(p5, fields)
  IN AppendFilters(p6, filters)
\* getScans whose guard of line 24 lacks the isNaN test.
getScansBeginNoNaNTest(args) ==
  LET page == Default(args.page, Num(1))
      events == << "getAuthHeaders" >>
  IN IF LessThan(page, 1)
     THEN Redirect(events)
     ELSE Await(events,
                Request("GET", apiBaseUrl \o "/scans",
                        getScansSearchParams(page, Default(args.query, Str("")),
                                             Default(args.sort, Str("")), args.filters,
                                             Default(args.pageSize, Num(10)),
                                             args.fields,
                                             Default(args.include, Str(""))),
                        Undefined))

\* Lines 13-45, up to the awaited fetch.
getScansBegin(args) ==
  LET page == Default(args.page, Num(1))
      query == Default(args.query, Str(""))
      sort == Default(args.sort, Str(""))
      pageSize == Default(args.pageSize, Num(10))
      include == Default(args.include, Str(""))
      events == << "getAuthHeaders" >>
  IN IF IsNaN(page) \/ LessThan(page, 1)
     THEN Redirect(events)
     ELSE Await(events,
                Request("GET", apiBaseUrl \o "/scans",
                        getScansSearchParams(page, query, sort, args.filters,
                                             pageSize, args.fields, include),
                        Undefined))

\* Lines 45-54, once the fetch has settled.
getScansResume(args, settled) ==
  IF ~settled.resolved THEN Return(<< >>, Undefined)
  ELSE LET data == Json(settled.response)
       IN IF ~data.ok THEN Return(<< >>, Undefined)
          ELSE Return(<< "revalidatePath" >>, parseStringify(data.val))

(***************************************************************************)
(* getScansByState                                                         *)
(***************************************************************************)
getScansByStateBegin(args) ==
  Await(<< "getAuthHeaders" >>,
        Request("GET", apiBaseUrl \o "/scans",
                << << "fields[scans]", "state" >> >>, Undefined))

\* Lines 66-86.  Whatever the inner try block throws, its catch clause
\* replaces by the fixed error, which the outer catch turns into undefined.
getScansByStateResume(args, settled) ==
  IF ~settled.resolved THEN Return(<< >>, Undefined)
  ELSE IF ~Ok(settled.response) THEN Return(<< >>, Undefined)
  ELSE LET data == Json(settled.response)
       IN IF ~data.ok THEN Return(<< >>, Undefined)
          ELSE Return(<< >>, parseStringify(data.val))

(***************************************************************************)
(* getScan                                                                 *)
(***************************************************************************)
getScanBegin(args) ==
  Await(<< "getAuthHeaders" >>,
        Request("GET", apiBaseUrl \o "/scans/" \o ToStr(args.scanId),
                << >>, Undefined))

\* getScan that invalidates the scans view once it has the document.
getScanResumeRevalidating(args, settled) ==
  IF ~settled.resolved
  THEN Return(<< >>, Obj([error |-> getErrorMessage(settled.error)]))
  ELSE LET data == Json(settled.response)
       IN IF ~data.ok
          THEN Return(<< >>, Obj([error |-> getErrorMessage(data.error)]))
          ELSE Return(<< "revalidatePath" >>, parseStringify(data.val))

getScanResume(args, settled) ==
  IF ~settled.resolved
  THEN Return(<< >>, Obj([error |-> getErrorMessage(settled.error)]))
  ELSE LET data == Json(settled.response)
       IN IF ~data.ok
          THEN Return(<< >>, Obj([error |-> getErrorMessage(data.error)]))
          ELSE Return(<< >>, parseStringify(data.val))

(***************************************************************************)
(* scanOnDemand                                                            *)
(***************************************************************************)
\* Lines 121-134: the body that is serialised into the POST request.
scanOnDemandRequestBody(providerId, scanName) ==
  Obj([data |->
    Obj([type |-> Str("scans"),
         attributes |-> IF Truthy(scanName) THEN Obj([name |-> scanName])
                        ELSE Obj(<< >>),
         relationships |->
           Obj([provider |->
             Obj([data |-> Obj([type |-> Str("providers"),
                                id |-> providerId])])])])])
\* scanOnDemand without the check of lines 114-116.
scanOnDemandBeginUnchecked(formData) ==
  Await(<< "getAuthHeaders" >>,
        Request("POST", apiBaseUrl \o "/scans", << >>,
                scanOnDemandRequestBody(formData.providerId,
                                        OrElse(formData.scanName, Undefined))))

\* Lines 109-140, up to the awaited fetch.
scanOnDemandBegin(formData) ==
  LET providerId == formData.providerId
      scanName == OrElse(formData.scanName, Undefined)
      events == << "getAuthHeaders" >>
  IN IF ~Truthy(providerId)
     THEN Return(events, Obj([error |-> Str("Provider ID is required")]))
     ELSE Await(events,
                Request("POST", apiBaseUrl \o "/scans", << >>,
                        scanOnDemandRequestBody(providerId, scanName)))

\* errorData.errors[0].detail, line 145: each read throws on null/undefined.
ErrorsFirstDetail(errorData) ==
  LET errors == GetProp(errorData, "errors")
  IN IF ~errors.ok THEN errors
     ELSE LET first == GetElem(errors.val, 0)
          IN IF ~first.ok THEN first
             ELSE GetProp(first.val, "detail")

\* Lines 136-156, once the fetch has settled.
scanOnDemandResume(formData, settled) ==
  IF ~settled.resolved
  THEN Return(<< >>, Obj([error |-> getErrorMessage(settled.error)]))
  ELSE LET response == settled.response
       IN IF ~Ok(response)
          THEN LET errorData == Json(response)
                   detail == ErrorsFirstDetail(errorData.val)
               IN IF ~errorData.ok
                  THEN Return(<< >>, Obj([error |-> getErrorMessage(errorData.error)]))
                  ELSE IF ~detail.ok
                  THEN Return(<< >>, Obj([error |-> getErrorMessage(detail.error)]))
                  ELSE Return(<< >>, Obj([success |-> Bool(FALSE),
                                          error |-> detail.val]))
          ELSE LET data == Json(response)
               IN IF ~data.ok
                  THEN Return(<< >>, Obj([error |-> getErrorMessage(data.error)]))
                  ELSE Return(<< "revalidatePath" >>, parseStringify(data.val))

(***************************************************************************)
(* scheduleDaily                                                           *)
(***************************************************************************)
scheduleDailyBegin(formData) ==
  Await(<< "getAuthHeaders" >>,
        Request("POST", apiBaseUrl \o "/schedules/daily", << >>,
                Obj([data |->
                  Obj([type |-> Str("daily-schedules"),
                       attributes |-> Obj([provider_id |-> formData.providerId])])])))
\* scheduleDaily that invalidates the view before it looks at response.ok.
scheduleDailyResumeEager(formData, settled) ==
  IF ~settled.resolved
  THEN Return(<< >>, Obj([error |-> getErrorMessage(settled.error)]))
  ELSE LET response == settled.response
       IN IF ~Ok(response)
          THEN Return(<< "revalidatePath" >>,
                 Obj([error |-> getErrorMessage(
                        Error("Error", "Failed to schedule daily: "
                                       \o response.statusText))]))
          ELSE LET data == Json(response)
               IN IF ~data.ok
                  THEN Return(<< >>, Obj([error |-> getErrorMessage(data.error)]))
                  ELSE Return(<< "revalidatePath" >>, parseStringify(data.val))

\* Lines 166-193, once the fetch has settled.
scheduleDailyResume(formData, settled) ==
  IF ~settled.resolved
  THEN Return(<< >>, Obj([error |-> getErrorMessage(settled.error)]))
  ELSE LET response == settled.response
       IN IF ~Ok(response)
          THEN Return(<< >>,
                 Obj([error |-> getErrorMessage(
                        Error("Error", "Failed to schedule daily: "
                                       \o response.statusText))]))
          ELSE LET data == Json(response)
               IN IF ~data.ok
                  THEN Return(<< >>, Obj([error |-> getErrorMessage(data.error)]))
                  ELSE Return(<< "revalidatePath" >>, parseStringify(data.val))

(***************************************************************************)
(* updateScan                                                              *)
(***************************************************************************)
updateScanBegin(formData) ==
  Await(<< "getAuthHeaders" >>,
        Request("PATCH", apiBaseUrl \o "/scans/" \o ToStr(formData.scanId), << >>,
                Obj([data |->
                  Obj([type |-> Str("scans"),
                       id |-> formData.scanId,
                       attributes |-> Obj([name |-> formData.scanName])])])))

\* Lines 204-227, once the fetch has settled: response.ok is not looked at.
updateScanResume(formData, settled) ==
  IF ~settled.resolved
  THEN Return(<< >>, Obj([error |-> getErrorMessage(settled.error)]))
  ELSE LET data == Json(settled.response)
       IN IF ~data.ok
          THEN Return(<< >>, Obj([error |-> getErrorMessage(data.error)]))
          ELSE Return(<< "revalidatePath" >>, parseStringify(data.val))

(***************************************************************************)
(* getExportsZip and getComplianceCsv                                      *)
(***************************************************************************)
Accepted == 202

\* json?.data?.id, lines 242 and 292.
TaskIdOf(json) == OptProp(OptProp(json, "data"), "id")
\* The state read from json?.data?.state instead.
StateOfData(json) == OptProp(OptProp(json, "data"), "state")

\* json?.data?.attributes?.state, lines 243 and 293.
StateOf(json) == OptProp(OptProp(OptProp(json, "data"), "attributes"), "state")

\* errorData?.errors?.detail || fallback, lines 255-256 and 304-305.
DetailOr(errorData, fallback) ==
  OrElse(OptProp(OptProp(errorData, "errors"), "detail"), Str(fallback))

getExportsZipBegin(scanId) ==
  Await(<< "getAuthHeaders" >>,
        Request("GET", apiBaseUrl \o "/scans/" \o ToStr(scanId) \o "/report",
                << >>, Undefined))
\* getExportsZip that asks again while the report is pending.
getExportsZipResumePolling(scanId, settled) ==
  IF ~settled.resolved
  THEN Return(<< >>, Obj([error |-> getErrorMessage(settled.error)]))
  ELSE LET response == settled.response
       IN IF response.status = Accepted
          THEN Await(<< >>,
                 Request("GET", apiBaseUrl \o "/scans/" \o ToStr(scanId) \o "/report",
                         << >>, Undefined))
          ELSE IF ~Ok(response)
          THEN Return(<< >>, Obj([error |-> Str("failed")]))
          ELSE Return(<< >>,
                 Obj([success |-> Bool(TRUE),
                      data |-> Str(Base64(ArrayBuffer(response))),
                      filename |-> Str("scan-" \o ToStr(scanId) \o "-report.zip")]))

\* Lines 235-274, once the fetch has settled.
getExportsZipResume(scanId, settled) ==
  IF ~settled.resolved
  THEN Return(<< >>, Obj([error |-> getErrorMessage(settled.error)]))
  ELSE LET response == settled.response
       IN IF response.status = Accepted
          THEN LET json == Json(response)
               IN IF ~json.ok
                  THEN Return(<< >>, Obj([error |-> getErrorMessage(json.error)]))
                  ELSE Return(<< >>, Obj([pending |-> Bool(TRUE),
                                          state |-> StateOf(json.val),
                                          taskId |-> TaskIdOf(json.val)]))
          ELSE IF ~Ok(response)
          THEN LET errorData == Json(response)
               IN IF ~errorData.ok
                  THEN Return(<< >>, Obj([error |-> getErrorMessage(errorData.error)]))
                  ELSE Return(<< >>,
                         Obj([error |-> getErrorMessage(
                           Error("Error", ToStr(DetailOr(errorData.val,
                             "Unable to fetch scan report. Contact support if the issue continues."))))]))
          ELSE LET arrayBuffer == ArrayBuffer(response)
                   base64 == Base64(arrayBuffer)
               IN Return(<< >>,
                    Obj([success |-> Bool(TRUE),
                         data |-> Str(base64),
                         filename |-> Str("scan-" \o ToStr(scanId) \o "-report.zip")]))

getComplianceCsvBegin(scanId, complianceId) ==
  Await(<< "getAuthHeaders" >>,
        Request("GET", apiBaseUrl \o "/scans/" \o ToStr(scanId)
                       \o "/compliance/" \o ToStr(complianceId),
                << >>, Undefined))
\* getComplianceCsv whose 202 branch parses the body outside the try block.
getComplianceCsvResumeUnguarded(scanId, complianceId, settled) ==
  IF ~settled.resolved
  THEN Return(<< >>, Obj([error |-> getErrorMessage(settled.error)]))
  ELSE LET response == settled.response
       IN IF response.status = Accepted
          THEN LET json == Json(response)
               IN IF ~json.ok
                  THEN Escape(<< >>)
                  ELSE Return(<< >>, Obj([pending |-> Bool(TRUE),
                                          state |-> StateOf(json.val),
                                          taskId |-> TaskIdOf(json.val)]))
          ELSE IF ~Ok(response)
          THEN Return(<< >>, Obj([error |-> Str("failed")]))
          ELSE Return(<< >>,
                 Obj([success |-> Bool(TRUE),
                      data |-> Str(Base64(ArrayBuffer(response))),
                      filename |-> Str("scan-" \o ToStr(scanId) \o "-compliance-"
                                       \o ToStr(complianceId) \o ".csv")]))

\* Lines 287-321, once the fetch has settled.
getComplianceCsvResume(scanId, complianceId, settled) ==
  IF ~settled.resolved
  THEN Return(<< >>, Obj([error |-> getErrorMessage(settled.error)]))
  ELSE LET response == settled.response
       IN IF response.status = Accepted
          THEN LET json == Json(response)
               IN IF ~json.ok
                  THEN Return(<< >>, Obj([error |-> getErrorMessage(json.error)]))
                  ELSE Return(<< >>, Obj([pending |-> Bool(TRUE),
                                          state |-> StateOf(json.val),
                                          taskId |-> TaskIdOf(json.val)]))
          ELSE IF ~Ok(response)
          THEN LET errorData == Json(response)
               IN IF ~errorData.ok
                  THEN Return(<< >>, Obj([error |-> getErrorMessage(errorData.error)]))
                  ELSE Return(<< >>,
                         Obj([error |-> getErrorMessage(
                           Error("Error", ToStr(DetailOr(errorData.val,
                             "Unable to retrieve compliance report. Contact support if the issue continues."))))]))
          ELSE LET arrayBuffer == ArrayBuffer(response)
                   base64 == Base64(arrayBuffer)
               IN Return(<< >>,
                    Obj([success |-> Bool(TRUE),
                         data |-> Str(base64),
                         filename |-> Str("scan-" \o ToStr(scanId) \o "-compliance-"
                                          \o ToStr(complianceId) \o ".csv")]))

(***************************************************************************)
(* The arguments the callers pass.                                         *)
(***************************************************************************)
Callers == {"a", "b"}

PageInputs ==
  { Undefined, Null, NaN, Str(""), Str("abc"), Str("0"), Str("2") }
    \cup { Num(n) : n \in -1 .. MaxPage }

\* getScans({}) : every parameter takes its default.
NoListQuery ==
  [page |-> Undefined, query |-> Undefined, sort |-> Undefined,
   filters |-> << >>, pageSize |-> Undefined, fields |-> << >>,
   include |-> Undefined]

ListQueries ==
  { [NoListQuery EXCEPT !.page = p] : p \in PageInputs }
    \cup { [NoListQuery EXCEPT !.page = Num(1), !.query = Str("prod"),
                               !.sort = Str("-inserted_at"),
                               !.include = Str("provider"),
                               !.pageSize = Num(20)],
           [NoListQuery EXCEPT !.fields = << << "scans", Str("name,state") >> >>,
                               !.filters = << << "filter[state]", Str("completed") >> >>] }

\* formData.get(name) is the string of the field, or null without the field.
ProviderIds == { Null, Str(""), Str("p1") }
ScanNames == { Null, Str("nightly") }
ScanIds == { Str("scan1") }
ComplianceIds == { Str("cis_2.0_aws") }

NoCall == [op |-> "none", args |-> [none |-> Undefined]]

(***************************************************************************)
(* State.                                                                  *)
(*   pc[c]          where caller c's invocation stands: "idle", "awaiting" *)
(*                  (suspended at the fetch), "returned", "redirected", or *)
(*                  "thrown" (an error left the function)                  *)
(*   call[c]        the server action c invoked, and its arguments         *)
(*   request[c]     the request c's invocation handed to fetch             *)
(*   settled[c]     what that fetch settled with                           *)
(*   result[c]      the value the invocation returned                      *)
(*   trace[c]       the collaborator calls the invocation made, in order   *)
(*   invalidations  the number of revalidatePath("/scans") calls so far    *)
(*   fetchCalls     the number of fetch calls so far                       *)
(***************************************************************************)
VARIABLES pc, call, request, settled, result, trace, invalidations, fetchCalls

vars == << pc, call, request, settled, result, trace, invalidations, fetchCalls >>

Init ==
  /\ pc = [c \in Callers |-> "idle"]
  /\ call = [c \in Callers |-> NoCall]
  /\ request = [c \in Callers |-> NoRequest]
  /\ settled = [c \in Callers |-> Unsettled]
  /\ result = [c \in Callers |-> Undefined]
  /\ trace = [c \in Callers |-> << >>]
  /\ invalidations = 0
  /\ fetchCalls = 0

\* Caller c invokes a server action; it runs up to its fetch or to its end.
Invoke(c, op, args, out) ==
  /\ pc' = [pc EXCEPT ![c] = out.pc]
  /\ call' = [call EXCEPT ![c] = [op |-> op, args |-> args]]
  /\ request' = [request EXCEPT ![c] = out.request]
  /\ result' = [result EXCEPT ![c] = out.result]
  /\ trace' = [trace EXCEPT ![c] = out.events]
  /\ invalidations' = invalidations + Count(out.events, "revalidatePath")
  /\ fetchCalls' = fetchCalls + Count(out.events, "fetch")
  /\ UNCHANGED settled

\* The continuation keeps its result in a variable all invocations share.
SettleShared(c, s, out) ==
  /\ pc' = [pc EXCEPT ![c] = out.pc]
  /\ settled' = [settled EXCEPT ![c] = s]
  /\ request' = [request EXCEPT ![c] = IF out.pc = "awaiting" THEN out.request ELSE @]
  /\ result' = [d \in Callers |-> IF d = c \/ pc[d] = "returned" THEN out.result
                                  ELSE result[d]]
  /\ trace' = [trace EXCEPT ![c] = @ \o out.events]
  /\ invalidations' = invalidations + Count(out.events, "revalidatePath")
  /\ fetchCalls' = fetchCalls + Count(out.events, "fetch")
  /\ UNCHANGED call

\* The fetch of c's invocation settles with s and the invocation runs on.
Settle(c, s, out) ==
  /\ pc' = [pc EXCEPT ![c] = out.pc]
  /\ settled' = [settled EXCEPT ![c] = s]
  /\ request' = [request EXCEPT ![c] = IF out.pc = "awaiting" THEN out.request ELSE @]
  /\ result' = [result EXCEPT ![c] = out.result]
  /\ trace' = [trace EXCEPT ![c] = @ \o out.events]
  /\ invalidations' = invalidations + Count(out.events, "revalidatePath")
  /\ fetchCalls' = fetchCalls + Count(out.events, "fetch")
  /\ UNCHANGED call

Awaiting(c, op) == pc[c] = "awaiting" /\ call[c].op = op

getScans(c) ==
  /\ pc[c] = "idle"
  /\ \E args \in ListQueries : Invoke(c, "getScans", args, getScansBegin(args))

getScansSettled(c) ==
  /\ Awaiting(c, "getScans")
  /\ \E s \in Settlements : Settle(c, s, getScansResume(call[c].args, s))

getScansByState(c) ==
  /\ pc[c] = "idle"
  /\ Invoke(c, "getScansByState", [none |-> Undefined],
            getScansByStateBegin([none |-> Undefined]))

getScansByStateSettled(c) ==
  /\ Awaiting(c, "getScansByState")
  /\ \E s \in Settlements : Settle(c, s, getScansByStateResume(call[c].args, s))

getScan(c) ==
  /\ pc[c] = "idle"
  /\ \E scanId \in ScanIds :
       Invoke(c, "getScan", [scanId |-> scanId], getScanBegin([scanId |-> scanId]))

getScanSettled(c) ==
  /\ Awaiting(c, "getScan")
  /\ \E s \in Settlements : Settle(c, s, getScanResume(call[c].args, s))

scanOnDemand(c) ==
  /\ pc[c] = "idle"
  /\ \E providerId \in ProviderIds, scanName \in ScanNames :
       LET formData == [providerId |-> providerId, scanName |-> scanName]
       IN Invoke(c, "scanOnDemand", formData, scanOnDemandBegin(formData))

scanOnDemandSettled(c) ==
  /\ Awaiting(c, "scanOnDemand")
  /\ \E s \in Settlements : Settle(c, s, scanOnDemandResume(call[c].args, s))

scheduleDaily(c) ==
  /\ pc[c] = "idle"
  /\ \E providerId \in ProviderIds :
       LET formData == [providerId |-> providerId]
       IN Invoke(c, "scheduleDaily", formData, scheduleDailyBegin(formData))

scheduleDailySettled(c) ==
  /\ Awaiting(c, "scheduleDaily")
  /\ \E s \in Settlements : Settle(c, s, scheduleDailyResume(call[c].args, s))

updateScan(c) ==
  /\ pc[c] = "idle"
  /\ \E scanId \in ScanIds, scanName \in ScanNames :
       LET formData == [scanId |-> scanId, scanName |-> scanName]
       IN Invoke(c, "updateScan", formData, updateScanBegin(formData))

updateScanSettled(c) ==
  /\ Awaiting(c, "updateScan")
  /\ \E s \in Settlements : Settle(c, s, updateScanResume(call[c].args, s))

getExportsZip(c) ==
  /\ pc[c] = "idle"
  /\ \E scanId \in ScanIds :
       Invoke(c, "getExportsZip", [scanId |-> scanId], getExportsZipBegin(scanId))

getExportsZipSettled(c) ==
  /\ Awaiting(c, "getExportsZip")
  /\ \E s \in Settlements :
       Settle(c, s, getExportsZipResume(call[c].args.scanId, s))

getComplianceCsv(c) ==
  /\ pc[c] = "idle"
  /\ \E scanId \in ScanIds, complianceId \in ComplianceIds :
       Invoke(c, "getComplianceCsv",
              [scanId |-> scanId, complianceId |-> complianceId],
              getComplianceCsvBegin(scanId, complianceId))

getComplianceCsvSettled(c) ==
  /\ Awaiting(c, "getComplianceCsv")
  /\ \E s \in Settlements :
       Settle(c, s, getComplianceCsvResume(call[c].args.scanId,
                                           call[c].args.complianceId, s))

Next ==
  \E c \in Callers :
    \/ getScans(c)
    \/ getScansSettled(c)
    \/ getScansByState(c)
    \/ getScansByStateSettled(c)
    \/ getScan(c)
    \/ getScanSettled(c)
    \/ scanOnDemand(c)
    \/ scanOnDemandSettled(c)
    \/ scheduleDaily(c)
    \/ scheduleDailySettled(c)
    \/ updateScan(c)
    \/ updateScanSettled(c)
    \/ getExportsZip(c)
    \/ getExportsZipSettled(c)
    \/ getComplianceCsv(c)
    \/ getComplianceCsvSettled(c)

Spec == Init /\ [][Next]_vars

\* The transport answers every request or reports a failure.
FairSpec == Spec /\ WF_vars(Next)

TypeOK ==
  /\ \A c \in Callers :
       pc[c] \in {"idle", "awaiting", "returned", "redirected", "thrown"}
  /\ invalidations \in 0 .. 2
  /\ fetchCalls \in 0 .. 2

(***************************************************************************)
(* Vocabulary of the properties.                                           *)
(***************************************************************************)
MutatingOps == {"scanOnDemand", "scheduleDaily", "updateScan"}
ArtifactOps == {"getExportsZip", "getComplianceCsv"}

\* The invocation of caller c has come to its end.
Finished(c) == pc[c] \in {"returned", "redirected", "thrown"}

\* The fetch of caller c has been answered with a response.
Answered(c) == settled[c].resolved

\* The fetch of caller c has been answered, or has failed.
HasSettled(c) == settled[c].resolved \/ settled[c].error.name # ""

\* The number of view invalidations and of fetch calls of c's invocation.
Invalidations(c) == Count(trace[c], "revalidatePath")
Fetches(c) == Count(trace[c], "fetch")

\* A field of an object is there and is a string.
HasString(r, k) == r.t = "object" /\ k \in DOMAIN r.v /\ r.v[k].t = "string"

\* The three shapes of an artifact result, and the error shape of the others.
IsFailed(r) == r.t = "object" /\ "error" \in DOMAIN r.v
IsPending(r) == r.t = "object" /\ "pending" \in DOMAIN r.v
IsReady(r) == r.t = "object" /\ "data" \in DOMAIN r.v /\ "filename" \in DOMAIN r.v

\* The value at a path of object keys in a document, undefined when the
\* path leaves the document.
RECURSIVE At(_, _)
At(doc, path) ==
  IF path = << >> THEN doc
  ELSE IF doc.t = "object" /\ path[1] \in DOMAIN doc.v
  THEN At(doc.v[path[1]], Tail(path))
  ELSE Undefined

\* The detail message of an error document in its array shape, errors[0].detail.
ArrayDetail(doc) ==
  LET errors == At(doc, << "errors" >>)
  IN IF errors.t = "array" /\ Len(errors.v) > 0
     THEN At(errors.v[1], << "detail" >>)
     ELSE Undefined

\* The detail message of an error document in its object shape, errors.detail.
ObjectDetail(doc) == At(doc, << "errors", "detail" >>)

\* Two values are the same string.
SameString(x, y) == x.t = "string" /\ y.t = "string" /\ x.v = y.v

\* Two values are the same (for the scalar values of the documents).
SameValue(x, y) == x.t = y.t /\ x.v = y.v

\* Every invalidation of the trace comes after the fetch call.
InvalidatesAfterFetch(events) ==
  \A i \in Positions(events, "revalidatePath") :
    \E j \in Positions(events, "fetch") : j < i

(***************************************************************************)
(* C1: an updateScan whose PATCH is answered 2xx invalidates the scans     *)
(* view exactly once; one whose PATCH is answered non-2xx, or whose fetch  *)
(* fails, does not invalidate it.                                          *)
(***************************************************************************)
C1_UpdateInvalidatesIffOk ==
  \A c \in Callers :
    (call[c].op = "updateScan" /\ Finished(c)) =>
      IF Answered(c) /\ Ok(settled[c].response)
      THEN Invalidations(c) = 1
      ELSE Invalidations(c) = 0

(***************************************************************************)
(* C2: getExportsZip and getComplianceCsv answer a response that is not ok *)
(* and carries a detail message, at errors[0].detail or at errors.detail,  *)
(* with the error result whose message is that detail.                     *)
(***************************************************************************)
C2_NotOkDetailIsMessage ==
  \A c \in Callers :
    (call[c].op \in ArtifactOps /\ Finished(c) /\ Answered(c)
       /\ ~Ok(settled[c].response) /\ Json(settled[c].response).ok) =>
      LET doc == Json(settled[c].response).val
          detail == IF ArrayDetail(doc).t = "string" THEN ArrayDetail(doc)
                    ELSE ObjectDetail(doc)
      IN detail.t = "string" =>
           /\ IsFailed(result[c])
           /\ SameString(result[c].v.error, detail)

(***************************************************************************)
(* C3: scanOnDemand without a provider id returns the error "Provider ID   *)
(* is required", calls fetch zero times and does not invalidate the view.  *)
(***************************************************************************)
NoProviderId(c) ==
  /\ call[c].op = "scanOnDemand"
  /\ \/ call[c].args.providerId.t = "null"
     \/ SameString(call[c].args.providerId, Str(""))

C3_NoProviderIdFailsFast ==
  \A c \in Callers :
    NoProviderId(c) =>
      /\ pc[c] = "returned"
      /\ IsFailed(result[c])
      /\ SameString(result[c].v.error, Str("Provider ID is required"))
      /\ Fetches(c) = 0
      /\ request[c].method = ""
      /\ Invalidations(c) = 0

C3_Witness ==
  \E c \in Callers :
    /\ NoProviderId(c)
    /\ call[c].args.providerId.t = "null"
    /\ pc[c] = "returned"
    /\ fetchCalls = 0

(***************************************************************************)
(* C4: getScans with a page that is not a number, or is less than 1,       *)
(* redirects, calls fetch zero times and returns no value.                 *)
(***************************************************************************)
InvalidPage(c) ==
  /\ call[c].op = "getScans"
  /\ LET page == call[c].args.page
     IN \/ page.t \in {"NaN", "null"}
        \/ page.t = "string" /\ page.v \in {"abc", ""}
        \/ page.t = "string" /\ page.v \in {"0", "-1"}
        \/ page.t = "number" /\ page.v < 1

C4_InvalidPageRedirects ==
  \A c \in Callers :
    InvalidPage(c) =>
      /\ pc[c] = "redirected"
      /\ Count(trace[c], "redirect") = 1
      /\ Fetches(c) = 0
      /\ request[c].method = ""
      /\ Count(trace[c], "return") = 0
      /\ result[c].t = "undefined"

C4_Witness ==
  /\ \E c \in Callers : InvalidPage(c) /\ call[c].args.page.t = "NaN"
                        /\ pc[c] = "redirected"
  /\ \E c \in Callers : InvalidPage(c) /\ call[c].args.page.t = "number"
                        /\ pc[c] = "redirected"

(***************************************************************************)
(* C5: getExportsZip and getComplianceCsv answer a 202 response whose body *)
(* parses with the pending result: its taskId is the body's data.id, its   *)
(* state is the body's data.attributes.state, and it is neither the ready  *)
(* nor the error result.                                                   *)
(***************************************************************************)
AcceptedParsed(c) ==
  /\ call[c].op \in ArtifactOps
  /\ Finished(c)
  /\ Answered(c)
  /\ settled[c].response.status = 202
  /\ Json(settled[c].response).ok

C5_AcceptedIsPending ==
  \A c \in Callers :
    AcceptedParsed(c) =>
      LET doc == Json(settled[c].response).val
      IN /\ pc[c] = "returned"
         /\ IsPending(result[c])
         /\ SameValue(result[c].v.pending, Bool(TRUE))
         /\ SameValue(result[c].v.taskId, At(doc, << "data", "id" >>))
         /\ SameValue(result[c].v.state,
                      At(doc, << "data", "attributes", "state" >>))
         /\ ~IsReady(result[c])
         /\ ~IsFailed(result[c])

C5_Witness ==
  \E c \in Callers :
    /\ AcceptedParsed(c)
    /\ call[c].op = "getExportsZip"
    /\ SameString(result[c].v.taskId, Str("t1"))
    /\ SameString(result[c].v.state, Str("running"))

(***************************************************************************)
(* C6: no invocation calls fetch more than once, and once its fetch has    *)
(* been answered or has failed the invocation has returned: a 202 answer   *)
(* is handed to the caller, never followed by another request.             *)
(***************************************************************************)
C6_SingleFetchThenReturn ==
  \A c \in Callers :
    /\ Fetches(c) <= 1
    /\ HasSettled(c) => pc[c] = "returned"
    /\ pc[c] = "awaiting" => (Fetches(c) = 1 /\ ~HasSettled(c))

C6_Witness ==
  \E c \in Callers :
    /\ call[c].op = "getExportsZip"
    /\ Answered(c)
    /\ settled[c].response.status = 202
    /\ pc[c] = "returned"
    /\ IsPending(result[c])
    /\ Fetches(c) = 1

(***************************************************************************)
(* C7: the value getExportsZip or getComplianceCsv returns is exactly one  *)
(* of ready, pending and failed, with every field of its shape a string.   *)
(***************************************************************************)
C7_ArtifactResultIsWhole ==
  \A c \in Callers :
    (call[c].op \in ArtifactOps /\ Finished(c)) =>
      LET r == result[c]
          shapes == { k \in {"ready", "pending", "failed"} :
                        \/ k = "ready" /\ IsReady(r)
                        \/ k = "pending" /\ IsPending(r)
                        \/ k = "failed" /\ IsFailed(r) }
      IN /\ pc[c] = "returned"
         /\ Cardinality(shapes) = 1
         /\ IsReady(r) => HasString(r, "data") /\ HasString(r, "filename")
         /\ IsPending(r) => HasString(r, "taskId") /\ HasString(r, "state")
         /\ IsFailed(r) => HasString(r, "error")

(***************************************************************************)
(* C8: getExportsZip and getComplianceCsv answer a 202 response whose body *)
(* does not parse with the error result: they do not throw and return      *)
(* neither the pending nor the ready result.                               *)
(***************************************************************************)
AcceptedUnparsed(c) ==
  /\ call[c].op \in ArtifactOps
  /\ Answered(c)
  /\ settled[c].response.status = 202
  /\ ~Json(settled[c].response).ok

C8_AcceptedUnparsedIsFailed ==
  \A c \in Callers :
    AcceptedUnparsed(c) =>
      /\ pc[c] = "returned"
      /\ IsFailed(result[c])
      /\ ~IsPending(result[c])
      /\ ~IsReady(result[c])

C8_Witness ==
  \E c \in Callers :
    /\ AcceptedUnparsed(c)
    /\ call[c].op = "getComplianceCsv"
    /\ pc[c] = "returned"
    /\ IsFailed(result[c])

(***************************************************************************)
(* C9: scanOnDemand and scheduleDaily invalidate the scans view exactly    *)
(* once when the POST is answered 2xx, after the fetch call and never      *)
(* before it, and never when the validation fails, when the answer is      *)
(* non-2xx or when the fetch fails.                                        *)
(***************************************************************************)
C9_PostInvalidatesIffOk ==
  \A c \in Callers :
    call[c].op \in {"scanOnDemand", "scheduleDaily"} =>
      /\ InvalidatesAfterFetch(trace[c])
      /\ ~Finished(c) => Invalidations(c) = 0
      /\ Finished(c) =>
           IF Answered(c) /\ Ok(settled[c].response)
           THEN Invalidations(c) = 1
           ELSE Invalidations(c) = 0

(***************************************************************************)
(* C9, amended: scanOnDemand and scheduleDaily invalidate the scans view   *)
(* exactly once when the POST is answered 2xx with a body that parses as   *)
(* JSON, after the fetch call and never before it, and never when the      *)
(* validation fails, when the answer is non-2xx, when the fetch fails or   *)
(* when the body of the 2xx answer does not parse.                         *)
(***************************************************************************)
C9_PostInvalidatesIffOkAndParsed ==
  \A c \in Callers :
    call[c].op \in {"scanOnDemand", "scheduleDaily"} =>
      /\ InvalidatesAfterFetch(trace[c])
      /\ ~Finished(c) => Invalidations(c) = 0
      /\ Finished(c) =>
           IF Answered(c) /\ Ok(settled[c].response)
                /\ Json(settled[c].response).ok
           THEN Invalidations(c) = 1
           ELSE Invalidations(c) = 0

C9_Witness ==
  /\ \E c \in Callers :
       /\ call[c].op = "scheduleDaily"
       /\ Finished(c)
       /\ Answered(c)
       /\ settled[c].response.status = 201
       /\ Invalidations(c) = 1
  /\ \E c \in Callers :
       /\ call[c].op = "scanOnDemand"
       /\ Finished(c)
       /\ Answered(c)
       /\ settled[c].response.status = 404
       /\ Invalidations(c) = 0

(***************************************************************************)
(* C10: a mutating operation whose request is answered non-2xx returns an  *)
(* error whose message is the body's errors[0].detail when there is one,   *)
(* and any two mutating operations answered with the same non-2xx response *)
(* return the same error.                                                  *)
(***************************************************************************)
NotOkMutation(c) ==
  /\ call[c].op \in MutatingOps
  /\ Finished(c)
  /\ Answered(c)
  /\ ~Ok(settled[c].response)

C10_UniformErrorNormalization ==
  /\ \A c \in Callers :
       NotOkMutation(c) =>
         /\ pc[c] = "returned"
         /\ IsFailed(result[c])
         /\ LET body == Json(settled[c].response)
            IN (body.ok /\ ArrayDetail(body.val).t = "string") =>
                 SameString(result[c].v.error, ArrayDetail(body.val))
  /\ \A c, d \in Callers :
       (NotOkMutation(c) /\ NotOkMutation(d)
          /\ settled[c].response.status = settled[d].response.status
          /\ settled[c].response.body.bytes = settled[d].response.body.bytes) =>
         /\ IsFailed(result[c]) /\ IsFailed(result[d])
         /\ SameValue(result[c].v.error, result[d].v.error)

(***************************************************************************)
(* C11: every server action turns every failure into a value: when its     *)
(* fetch fails, or the body it has to parse does not parse, it returns an  *)
(* error result that carries a message; nothing is thrown to the caller    *)
(* but the redirect of getScans on an invalid page.                        *)
(***************************************************************************)
\* The fetch of c failed, or was answered with a body that is not JSON
\* where the action reads the body as JSON.
Faulted(c) ==
  /\ HasSettled(c)
  /\ \/ ~Answered(c)
     \/ /\ ~Json(settled[c].response).ok
        /\ \/ call[c].op \notin ArtifactOps
           \/ settled[c].response.status = 202
           \/ ~Ok(settled[c].response)

C11_FailureIsErrorValue ==
  \A c \in Callers :
    /\ pc[c] # "thrown"
    /\ pc[c] = "redirected" => InvalidPage(c)
    /\ Faulted(c) =>
         /\ pc[c] = "returned"
         /\ IsFailed(result[c])
         /\ HasString(result[c], "error")

(***************************************************************************)
(* Downloads: one caller fetches a report or a compliance export, and the  *)
(* request is answered in the success range with any bytes as the body.    *)
(***************************************************************************)
MaxBytes == 3

SampleBytes == {0, 1, 63, 64, 128, 255}

RECURSIVE SeqsUpTo(_, _)
SeqsUpTo(S, n) ==
  IF n = 0 THEN { << >> }
  ELSE LET shorter == SeqsUpTo(S, n - 1)
       IN shorter \cup { Append(q, x) : q \in shorter, x \in S }

\* Bodies that are not JSON text: response.json() would throw on them.
BinaryBodies ==
  { [bytes |-> b,
     json |-> Throw(Error("SyntaxError", "Unexpected token in JSON at position 0"))] :
      b \in SeqsUpTo(SampleBytes, MaxBytes) }

Downloads ==
  { Resolved([status |-> st, statusText |-> StatusText(st), body |-> b]) :
      st \in {200, 201}, b \in BinaryBodies }

DownloadScanIds == { Str("scan1"), Str("7f3a") }
DownloadComplianceIds == { Str("cis_2.0_aws"), Str("ens") }

getExportsZipOf(c) ==
  /\ pc[c] = "idle"
  /\ \E scanId \in DownloadScanIds :
       Invoke(c, "getExportsZip", [scanId |-> scanId], getExportsZipBegin(scanId))

getExportsZipDownloaded(c) ==
  /\ Awaiting(c, "getExportsZip")
  /\ \E s \in Downloads :
       Settle(c, s, getExportsZipResume(call[c].args.scanId, s))

getComplianceCsvOf(c) ==
  /\ pc[c] = "idle"
  /\ \E scanId \in DownloadScanIds, complianceId \in DownloadComplianceIds :
       Invoke(c, "getComplianceCsv",
              [scanId |-> scanId, complianceId |-> complianceId],
              getComplianceCsvBegin(scanId, complianceId))

getComplianceCsvDownloaded(c) ==
  /\ Awaiting(c, "getComplianceCsv")
  /\ \E s \in Downloads :
       Settle(c, s, getComplianceCsvResume(call[c].args.scanId,
                                           call[c].args.complianceId, s))

DownloadNext ==
  \/ getExportsZipOf("a")
  \/ getExportsZipDownloaded("a")
  \/ getComplianceCsvOf("a")
  \/ getComplianceCsvDownloaded("a")

DownloadSpec == Init /\ [][DownloadNext]_vars

(***************************************************************************)
(* C12: a response in the success range other than 202 with body bytes b   *)
(* gives the ready result whose data is the base64 text of all of b, which *)
(* decodes to b again, and whose file name is made of the caller's         *)
(* identifiers only: scan-<scanId>-report.zip for getExportsZip and        *)
(* scan-<scanId>-compliance-<complianceId>.csv for getComplianceCsv.       *)
(***************************************************************************)
\* The value of a base64 character: its place in the alphabet.
SextetOf(ch) == CHOOSE n \in 0 .. 63 : Base64Alphabet[n + 1] = ch

\* The bytes a base64 text stands for (RFC 4648): four characters give
\* three bytes, a group padded with one or two "=" gives two or one.
RECURSIVE Base64Decode(_)
Base64Decode(chars) ==
  IF Len(chars) < 4 THEN << >>
  ELSE LET n1 == SextetOf(chars[1])
           n2 == SextetOf(chars[2])
           rest == Base64Decode(SubSeq(chars, 5, Len(chars)))
       IN IF chars[3] = "="
          THEN << n1 * 4 + n2 \div 16 >>
          ELSE IF chars[4] = "="
          THEN << n1 * 4 + n2 \div 16,
                  (n2 % 16) * 16 + SextetOf(chars[3]) \div 4 >>
          ELSE << n1 * 4 + n2 \div 16,
                  (n2 % 16) * 16 + SextetOf(chars[3]) \div 4,
                  (SextetOf(chars[3]) % 4) * 64 + SextetOf(chars[4]) >> \o rest

Downloaded(c) ==
  /\ call[c].op \in ArtifactOps
  /\ Finished(c)
  /\ Answered(c)
  /\ Ok(settled[c].response)
  /\ settled[c].response.status # 202

C12_ReadyIsBase64OfBody ==
  \A c \in Callers :
    Downloaded(c) =>
      LET bytes == settled[c].response.body.bytes
          r == result[c]
      IN /\ IsReady(r)
         /\ HasString(r, "data")
         /\ LET chars == Base64Chars(bytes)
            IN /\ Len(chars) = 4 * ((Len(bytes) + 2) \div 3)
               /\ r.v.data.v = Join(chars)
               /\ Base64Decode(chars) = bytes
         /\ HasString(r, "filename")
         /\ r.v.filename.v =
              IF call[c].op = "getExportsZip"
              THEN "scan-" \o call[c].args.scanId.v \o "-report.zip"
              ELSE "scan-" \o call[c].args.scanId.v \o "-compliance-"
                     \o call[c].args.complianceId.v \o ".csv"

C12_Witness ==
  \E c \in Callers :
    /\ Downloaded(c)
    /\ call[c].op = "getExportsZip"
    /\ call[c].args.scanId.v = "scan1"
    /\ settled[c].response.body.bytes = << 255, 0 >>
    /\ result[c].v.data.v = "/wA="
    /\ result[c].v.filename.v = "scan-scan1-report.zip"

(***************************************************************************)
(* List queries: one caller lists the scans with any combination of the    *)
(* parameters.  The fields and filters objects are given as the sequence   *)
(* of their entries, in the order Object.entries enumerates them; an       *)
(* object has no key twice.                                                *)
(***************************************************************************)
MaxFields == 1
MaxFilters == 2

FieldKeys == {"scans", "providers"}
FieldValues == { Str(""), Str("state") }
FilterKeys == {"filter[state]", "sort", "fields[scans]"}
FilterValues == { Str(""), Str("completed") }

\* The entry sequences of the objects with at most n of the keys.
ObjectsOf(keys, values, n) ==
  { o \in SeqsUpTo(keys \X values, n) :
      \A i, j \in DOMAIN o : i # j => o[i][1] # o[j][1] }

QueryInputs ==
  [ page : { Undefined, Num(2) },
    query : { Str(""), Str("prod") },
    sort : { Undefined, Str("name") },
    filters : ObjectsOf(FilterKeys, FilterValues, MaxFilters),
    pageSize : { Undefined, Num(20) },
    fields : ObjectsOf(FieldKeys, FieldValues, MaxFields),
    include : { Str(""), Str("provider") } ]

getScansWith(c) ==
  /\ pc[c] = "idle"
  /\ \E args \in QueryInputs : Invoke(c, "getScans", args, getScansBegin(args))

QueryNext ==
  \/ getScansWith("a")
  \/ getScansSettled("a")

QuerySpec == Init /\ [][QueryNext]_vars

\* Caller c listed the scans and the request went out.
Listed(c) == call[c].op = "getScans" /\ pc[c] \in {"awaiting", "returned"}

\* The parameters of the list query of c, with the defaults of lines 14-20.
PageOf(c) == IF call[c].args.page.t = "undefined" THEN Num(1) ELSE call[c].args.page
PageSizeOf(c) ==
  IF call[c].args.pageSize.t = "undefined" THEN Num(10) ELSE call[c].args.pageSize
TextOf(x) == IF x.t = "string" THEN x.v ELSE ""

\* The query string of the request of c, as the server parses it: the
\* sequence of its key/value pairs.
ParamsOf(c) == request[c].searchParams
KeysOf(params) == [i \in DOMAIN params |-> params[i][1]]

\* The non-empty fields of the list query of c, as key/value pairs.
SuppliedPairs(c) ==
  LET args == call[c].args
  IN { << "page[number]", ToString(PageOf(c).v) >>,
       << "page[size]", ToString(PageSizeOf(c).v) >> }
     \cup { << "filter[search]", TextOf(args.query) >> : x \in { y \in {1} : TextOf(args.query) # "" } }
     \cup { << "sort", TextOf(args.sort) >> : x \in { y \in {1} : TextOf(args.sort) # "" } }
     \cup { << "include", TextOf(args.include) >> : x \in { y \in {1} : TextOf(args.include) # "" } }
     \cup { << "fields[" \o args.fields[i][1] \o "]", args.fields[i][2].v >> :
              i \in { j \in DOMAIN args.fields : args.fields[j][2].v # "" } }
     \cup { << args.filters[i][1], args.filters[i][2].v >> :
              i \in { j \in DOMAIN args.filters : args.filters[j][2].v # "" } }

(***************************************************************************)
(* C13: the query string getScans builds parses back to exactly the        *)
(* non-empty fields of the list query, and no key occurs in it twice: a    *)
(* filters key equal to the key of page, search, sort, include or of a     *)
(* fields entry does not give two entries for that key.                    *)
(***************************************************************************)
C13_QueryRoundTripNoDuplicateKey ==
  \A c \in Callers :
    Listed(c) =>
      LET params == ParamsOf(c)
      IN /\ \A i, j \in DOMAIN params : i # j => params[i][1] # params[j][1]
         /\ { params[i] : i \in { j \in DOMAIN params : params[j][2] # "" } }
              = SuppliedPairs(c)

(***************************************************************************)
(* C14: the query string getScans builds has no parameter with an empty    *)
(* value: search, sort, include, every fields entry and every filters      *)
(* entry is left out when empty, while page[number] and page[size] are     *)
(* always there.                                                           *)
(***************************************************************************)
C14_NoEmptyParameter ==
  \A c \in Callers :
    Listed(c) =>
      LET params == ParamsOf(c)
      IN /\ \A i \in DOMAIN params : params[i][2] # ""
         /\ params[1] = << "page[number]", ToString(PageOf(c).v) >>
         /\ params[2] = << "page[size]", ToString(PageSizeOf(c).v) >>

(***************************************************************************)
(* C15: the parameters of the query string come in a fixed order that the  *)
(* list query alone decides: page[number], page[size], filter[search],     *)
(* sort, include, then one fields[<type>] entry per fields entry in the    *)
(* order of the object, then one entry per filters entry in the order of   *)
(* the object under its own key.                                           *)
(***************************************************************************)
FixedKeys == << "page[number]", "page[size]", "filter[search]", "sort", "include" >>

Rank(key) == CHOOSE n \in DOMAIN FixedKeys : FixedKeys[n] = key

IsDefaultList(c) ==
  /\ call[c].op = "getScans"
  /\ pc[c] \in {"awaiting", "returned"}
  /\ call[c].args.page.t = "undefined"
  /\ call[c].args.query.t = "undefined"
  /\ call[c].args.sort.t = "undefined"
  /\ call[c].args.pageSize.t = "undefined"
  /\ call[c].args.include.t = "undefined"
  /\ call[c].args.fields = << >>
  /\ call[c].args.filters = << >>

IsByState(c) == call[c].op = "getScansByState" /\ pc[c] \in {"awaiting", "returned"}

IsForcedField(pair) == pair = << "fields[scans]", "state" >>
IsOtherParam(pair) == ~IsForcedField(pair)

\* The kind of a returned value: nothing, an error value, or a document.
KindOf(r) ==
  IF r.t = "undefined" THEN "undefined"
  ELSE IF IsFailed(r) THEN "error"
  ELSE "document"

C16_ByStateIsDefaultList ==
  \A c, d \in Callers :
    (IsDefaultList(c) /\ IsByState(d)) =>
      /\ request[d].method = request[c].method
      /\ request[d].url = request[c].url
      /\ \E i \in DOMAIN request[d].searchParams :
           IsForcedField(request[d].searchParams[i])
      /\ SelectSeq(request[d].searchParams, IsOtherParam)
           = SelectSeq(request[c].searchParams, IsOtherParam)
      /\ (pc[c] = "returned" /\ pc[d] = "returned" /\ settled[c] = settled[d]) =>
           KindOf(result[c]) = KindOf(result[d])

(***************************************************************************)
(* C17: invocations do not affect each other: however two invocations      *)
(* interleave, the result of each, the calls it makes and the              *)
(* invalidations it emits are what the same action gives when it runs      *)
(* alone with the same arguments and the same answer to its fetch.         *)
(***************************************************************************)
\* The code of an action up to its fetch, and after the fetch has settled.
BeginOf(cl) ==
  CASE cl.op = "getScans" -> getScansBegin(cl.args)
    [] cl.op = "getScansByState" -> getScansByStateBegin(cl.args)
    [] cl.op = "getScan" -> getScanBegin(cl.args)
    [] cl.op = "scanOnDemand" -> scanOnDemandBegin(cl.args)
    [] cl.op = "scheduleDaily" -> scheduleDailyBegin(cl.args)
    [] cl.op = "updateScan" -> updateScanBegin(cl.args)
    [] cl.op = "getExportsZip" -> getExportsZipBegin(cl.args.scanId)
    [] cl.op = "getComplianceCsv" ->
         getComplianceCsvBegin(cl.args.scanId, cl.args.complianceId)

ResumeOf(cl, s) ==
  CASE cl.op = "getScans" -> getScansResume(cl.args, s)
    [] cl.op = "getScansByState" -> getScansByStateResume(cl.args, s)
    [] cl.op = "getScan" -> getScanResume(cl.args, s)
    [] cl.op = "scanOnDemand" -> scanOnDemandResume(cl.args, s)
    [] cl.op = "scheduleDaily" -> scheduleDailyResume(cl.args, s)
    [] cl.op = "updateScan" -> updateScanResume(cl.args, s)
    [] cl.op = "getExportsZip" -> getExportsZipResume(cl.args.scanId, s)
    [] cl.op = "getComplianceCsv" ->
         getComplianceCsvResume(cl.args.scanId, cl.args.complianceId, s)

\* What the invocation of c shows when it runs alone.
Alone(c) ==
  IF pc[c] = "idle"
  THEN [pc |-> "idle", result |-> Undefined, events |-> << >>]
  ELSE LET begun == BeginOf(call[c])
       IN IF ~HasSettled(c)
          THEN [pc |-> begun.pc, result |-> begun.result, events |-> begun.events]
          ELSE LET resumed == ResumeOf(call[c], settled[c])
               IN [pc |-> resumed.pc, result |-> resumed.result,
                   events |-> begun.events \o resumed.events]

C17_InvocationsIndependent ==
  /\ \A c \in Callers :
       /\ pc[c] = Alone(c).pc
       /\ result[c] = Alone(c).result
       /\ trace[c] = Alone(c).events
  /\ \A c, d \in Callers :
       c # d => /\ invalidations = Invalidations(c) + Invalidations(d)
                /\ fetchCalls = Fetches(c) + Fetches(d)

C17_Witness ==
  \E c, d \in Callers :
    /\ call[c].op = "updateScan"
    /\ pc[c] = "returned"
    /\ Invalidations(c) = 1
    /\ call[d].op = "getExportsZip"
    /\ pc[d] = "returned"
    /\ IsReady(result[d])
    /\ result[c] # result[d]

(***************************************************************************)
(* C18: the read-only actions (getScans, getScansByState, getScan,         *)
(* getExportsZip, getComplianceCsv) never invalidate the scans view,       *)
(* whatever the transport answers; only scanOnDemand, updateScan and       *)
(* scheduleDaily can.                                                      *)
(***************************************************************************)
ReadOps == {"getScans", "getScansByState", "getScan", "getExportsZip",
            "getComplianceCsv"}

C18_ReadsNeverInvalidate ==
  \A c \in Callers :
    /\ call[c].op \in ReadOps => Invalidations(c) = 0
    /\ Invalidations(c) > 0 => call[c].op \in MutatingOps

(***************************************************************************)
(* C18, amended: getScansByState, getScan, getExportsZip and               *)
(* getComplianceCsv never invalidate the scans view, whatever the          *)
(* transport answers; getScans invalidates it once after every answer      *)
(* whose body parses as JSON and never otherwise; besides getScans only    *)
(* scanOnDemand, updateScan and scheduleDaily can invalidate it.           *)
(***************************************************************************)
C18_OnlyListAmongReadsInvalidates ==
  \A c \in Callers :
    /\ call[c].op \in ReadOps \ {"getScans"} => Invalidations(c) = 0
    /\ call[c].op = "getScans" =>
         IF Finished(c) /\ Answered(c) /\ Json(settled[c].response).ok
         THEN Invalidations(c) = 1 /\ InvalidatesAfterFetch(trace[c])
         ELSE Invalidations(c) = 0
    /\ Invalidations(c) > 0 => call[c].op \in MutatingOps \cup {"getScans"}

C18_Witness ==
  /\ \E c \in Callers :
       /\ call[c].op = "getScan"
       /\ Finished(c)
       /\ Answered(c)
       /\ settled[c].response.status = 200
       /\ Json(settled[c].response).ok
       /\ Invalidations(c) = 0
  /\ \E c \in Callers :
       /\ call[c].op = "getScans"
       /\ Finished(c)
       /\ Invalidations(c) = 1

====
